---- MODULE Spec2Model ----
(***************************************************************************)
(* Form scaffolding kit: the validation rule evaluator                     *)
(* (utils/componentValidation.ts), the form-level validator                *)
(* (utils/formBuilderValidation.ts), and the form sessions built on        *)
(* useFormSubmission (ContactFormExample, RegistrationFormBuilderExample)  *)
(* and on useSavingsForm.                                                  *)
(***************************************************************************)
EXTENDS Integers, Sequences, FiniteSets, TLC

VARIABLES
    form,          \* which program runs: "rule", "validate", "config", "contact", "registration",
                   \* "savings", "select", "shared", "raise", "blur", "render"
    pc,            \* position of the running handler
    value,         \* validateField: the value argument
    rules,         \* validateField: the rules argument ([has |-> FALSE] models an absent list)
    result,        \* validateField: the returned message (None for undefined)
    evaluated,     \* validateField: number of validateRule calls made
    formConfig,    \* FormConfig: sequence of sections
    formData,      \* FormData: field name -> JS value (a missing key is outside the domain)
    errors,        \* ErrorMap: field name -> message
    isSubmitting,  \* useState(false)
    submitSuccess, \* useState(false)
    submitError,   \* useState(''): the sequence of joined parts, << >> for ''
    includeBackend,\* useFormSubmission option
    sheets,        \* sheetsResponse of the running submission: "idle", "pending", "ok", "fail"
    backend,       \* backendResponse of the running submission: "idle", "pending", "ok", "fail"
    payload,       \* submissionData of the running submission
    submitResult,  \* value returned by the last submitForm call: "none", "true", "false"
    warned,        \* the last submission wrote the secondary failure to console.warn
    ipLookup,      \* getIpAddress() started at mount: "pending", then "done" (data.ip) or "failed" ('')
    ipAddress,     \* useFormSubmission: useState('')
    env,           \* import.meta.env: setting name -> string (a missing setting is outside the domain)
    CONFIG,        \* CONFIG of config.ts: NoConfig before it is built, then a configuration or the error thrown
    selected,      \* e.target.value of the option picked last in a select or radio control
    internalError, \* field component: useState(error), None for undefined
    onValidateCalls,\* field component: number of calls of the onValidate prop made by handleBlur
    controls       \* FormBuilder: the names of the fields its last render returned a control for

vars == <<form, pc, value, rules, result, evaluated, formConfig, formData, errors,
          isSubmitting, submitSuccess, submitError, includeBackend, sheets, backend,
          payload, submitResult, warned, ipLookup, ipAddress, env, CONFIG, selected,
          internalError, onValidateCalls, controls>>

(***************************************************************************)
(* Bounds                                                                  *)
(***************************************************************************)
MaxLen == 5      \* longest string given to the email rule
MaxRules == 2    \* longest rule list given to validateField

(***************************************************************************)
(* JavaScript values.  Every value is a record of the same shape so that   *)
(* values of different types can be compared: t is the type tag            *)
(* ("nan" is the number NaN), s a string as a sequence of characters,      *)
(* n a number, b a boolean.                                                 *)
(***************************************************************************)
Undefined == [t |-> "undefined", s |-> << >>, n |-> 0, b |-> FALSE]
Null == [t |-> "null", s |-> << >>, n |-> 0, b |-> FALSE]
NaN == [t |-> "nan", s |-> << >>, n |-> 0, b |-> FALSE]
Str(chars) == [t |-> "string", s |-> chars, n |-> 0, b |-> FALSE]
Num(k) == [t |-> "number", s |-> << >>, n |-> k, b |-> FALSE]
Bool(x) == [t |-> "boolean", s |-> << >>, n |-> 0, b |-> x]

TypeOf(v) == IF v.t = "nan" THEN "number" ELSE v.t

\* ToBoolean: what `if (value)` and `!value` test
Truthy(v) ==
    CASE v.t = "undefined" -> FALSE
      [] v.t = "null" -> FALSE
      [] v.t = "nan" -> FALSE
      [] v.t = "boolean" -> v.b
      [] v.t = "number" -> v.n # 0
      [] v.t = "string" -> v.s # << >>

Chars == {"a", "@", ".", " "}
IsSpace(c) == c = " "

StringsUpTo(k) == UNION {[1..m -> Chars] : m \in 0..k}

\* String.prototype.trim
RECURSIVE TrimLeft(_)
TrimLeft(s) == IF s # << >> /\ IsSpace(Head(s)) THEN TrimLeft(Tail(s)) ELSE s
RECURSIVE TrimRight(_)
TrimRight(s) ==
    IF s # << >> /\ IsSpace(s[Len(s)]) THEN TrimRight(SubSeq(s, 1, Len(s) - 1)) ELSE s
Trim(s) == TrimRight(TrimLeft(s))

\* [^\s@]+ matched against the whole of s
NoSpaceNoAt(s) == Len(s) >= 1 /\ \A k \in 1..Len(s) : ~IsSpace(s[k]) /\ s[k] # "@"

EmailRegexTest_NoTld(s) ==
    \E i \in 1..Len(s) :
        /\ s[i] = "@"
        /\ NoSpaceNoAt(SubSeq(s, 1, i - 1))
        /\ NoSpaceNoAt(SubSeq(s, i + 1, Len(s)))

\* /^[^\s@]+@[^\s@]+\.[^\s@]+$/.test(s)
EmailRegexTest(s) ==
    \E i \in 1..Len(s), j \in 1..Len(s) :
        /\ i < j
        /\ s[i] = "@"
        /\ s[j] = "."
        /\ NoSpaceNoAt(SubSeq(s, 1, i - 1))
        /\ NoSpaceNoAt(SubSeq(s, i + 1, j - 1))
        /\ NoSpaceNoAt(SubSeq(s, j + 1, Len(s)))

\* new RegExp(rule.value).test(value), for the pattern sources the model uses
PatternTest(source, s) ==
    CASE source = "^a+$" -> Len(s) >= 1 /\ \A k \in 1..Len(s) : s[k] = "a"
      [] OTHER -> TRUE

\* String(value), as RegExp.prototype.test coerces its argument
StringOf(v) ==
    CASE v.t = "string" -> v.s
      [] v.t = "undefined" -> <<"u", "n", "d", "e", "f", "i", "n", "e", "d">>
      [] v.t = "null" -> <<"n", "u", "l", "l">>
      [] v.t = "nan" -> <<"N", "a", "N">>
      [] v.t = "boolean" -> IF v.b THEN <<"t", "r", "u", "e">> ELSE <<"f", "a", "l", "s", "e">>
      [] v.t = "number" -> <<"0">>

\* rule.validator(value), for the predicates the model uses
ValidatorCall(validator, v) ==
    CASE validator = "isTrue" -> v = Bool(TRUE)
      [] validator = "hasLower" ->
            \E k \in 1..Len(StringOf(v)) :
                StringOf(v)[k] \in {"a", "d", "e", "f", "i", "l", "n", "r", "s", "t", "u"}
      [] OTHER -> TRUE

(***************************************************************************)
(* Validation rules                                                        *)
(***************************************************************************)
None == ""    \* the undefined message; falsy like it

Rule(type, hasValue, val, pattern, validator, message) ==
    [type |-> type, hasValue |-> hasValue, value |-> val, pattern |-> pattern,
     validator |-> validator, message |-> message]

requiredMsg(message) == Rule("required", FALSE, 0, "", "", message)
required == requiredMsg("Este campo es requerido")
email == Rule("email", FALSE, 0, "", "", "Ingresa un correo electronico valido")
min(k) == Rule("min", TRUE, k, "", "", "El valor minimo es k")
max(k) == Rule("max", TRUE, k, "", "", "El valor maximo es k")
minLengthMsg(k, message) == Rule("minLength", TRUE, k, "", "", message)
minLength(k) == minLengthMsg(k, "Debe tener al menos k caracteres")
maxLength(k) == Rule("maxLength", TRUE, k, "", "", "Debe tener maximo k caracteres")
pattern(source) == Rule("pattern", FALSE, 0, source, "", "pattern message")
custom(validator, message) == Rule("custom", FALSE, 0, "", validator, message)

validateRule_NoTypeGuard(v, rule) ==
    CASE rule.type = "required" ->
            IF v.t \in {"null", "undefined"} \/ (TypeOf(v) = "string" /\ Trim(v.s) = << >>)
            THEN rule.message ELSE None
      [] rule.type = "email" ->
            IF ~EmailRegexTest(v.s) THEN rule.message ELSE None
      [] rule.type = "min" ->
            IF rule.hasValue /\ v.t # "nan" /\ v.n < rule.value THEN rule.message ELSE None
      [] rule.type = "max" ->
            IF rule.hasValue /\ v.t # "nan" /\ v.n > rule.value THEN rule.message ELSE None
      [] rule.type = "minLength" ->
            IF rule.hasValue /\ Len(v.s) < rule.value THEN rule.message ELSE None
      [] rule.type = "maxLength" ->
            IF rule.hasValue /\ Len(v.s) > rule.value THEN rule.message ELSE None
      [] rule.type = "pattern" ->
            IF rule.pattern # "" /\ ~PatternTest(rule.pattern, v.s) THEN rule.message ELSE None
      [] rule.type = "custom" ->
            IF rule.validator # "" /\ ~ValidatorCall(rule.validator, v)
            THEN rule.message ELSE None
      [] OTHER -> None

validateRule_RequiredFalsy(v, rule) ==
    IF rule.type = "required" /\ ~Truthy(v) THEN rule.message
    ELSE IF rule.type = "required" /\ TypeOf(v) = "string" /\ Trim(v.s) = << >>
         THEN rule.message
    ELSE None

\* const validateRule = (value, rule) => string | undefined
validateRule(v, rule) ==
    CASE rule.type = "required" ->
            IF \/ v.t = "null"
               \/ v.t = "undefined"
               \/ (TypeOf(v) = "string" /\ v.s = << >>)
               \/ (TypeOf(v) = "string" /\ Trim(v.s) = << >>)
            THEN rule.message ELSE None
      [] rule.type = "email" ->
            IF Truthy(v) /\ TypeOf(v) = "string" /\ ~EmailRegexTest(v.s)
            THEN rule.message ELSE None
      [] rule.type = "min" ->
            IF TypeOf(v) = "number" /\ rule.hasValue /\ v.t # "nan" /\ v.n < rule.value
            THEN rule.message ELSE None
      [] rule.type = "max" ->
            IF TypeOf(v) = "number" /\ rule.hasValue /\ v.t # "nan" /\ v.n > rule.value
            THEN rule.message ELSE None
      [] rule.type = "minLength" ->
            IF TypeOf(v) = "string" /\ rule.hasValue /\ Len(v.s) < rule.value
            THEN rule.message ELSE None
      [] rule.type = "maxLength" ->
            IF TypeOf(v) = "string" /\ rule.hasValue /\ Len(v.s) > rule.value
            THEN rule.message ELSE None
      [] rule.type = "pattern" ->
            IF Truthy(v) /\ TypeOf(v) = "string" /\ rule.pattern # ""
               /\ ~PatternTest(rule.pattern, v.s)
            THEN rule.message ELSE None
      [] rule.type = "custom" ->
            IF rule.validator # "" /\ ~ValidatorCall(rule.validator, v)
            THEN rule.message ELSE None
      [] OTHER -> None

\* The for loop of validateField from rule k on, having made `done` calls of
\* validateRule: the returned message and the number of calls made.
RECURSIVE validateFieldLoop_NoReturn(_, _, _, _, _)
validateFieldLoop_NoReturn(v, list, k, done, found) ==
    IF k > Len(list) THEN [message |-> found, calls |-> done]
    ELSE LET error == validateRule(v, list[k])
         IN validateFieldLoop_NoReturn(v, list, k + 1, done + 1,
                                       IF error # None THEN error ELSE found)

RECURSIVE validateFieldLoop(_, _, _, _)
validateFieldLoop(v, list, k, done) ==
    IF k > Len(list) THEN [message |-> None, calls |-> done]
    ELSE LET error == validateRule(v, list[k])
         IN IF error # None
            THEN [message |-> error, calls |-> done + 1]
            ELSE validateFieldLoop(v, list, k + 1, done + 1)

\* A rule list as an optional argument
NoRules == [has |-> FALSE, list |-> << >>]
Rules(list) == [has |-> TRUE, list |-> list]

validateFieldRun_LastError(v, rs) ==
    IF ~rs.has \/ Len(rs.list) = 0 THEN [message |-> None, calls |-> 0]
    ELSE validateFieldLoop_NoReturn(v, rs.list, 1, 0, None)

\* export const validateField = (value, rules?) => string | undefined
validateFieldRun(v, rs) ==
    IF ~rs.has \/ Len(rs.list) = 0 THEN [message |-> None, calls |-> 0]
    ELSE validateFieldLoop(v, rs.list, 1, 0)

validateField(v, rs) == validateFieldRun(v, rs).message

(***************************************************************************)
(* State common to the specifications                                      *)
(***************************************************************************)
\* Record<string, ...> as a function over the keys present
EmptyMap == [k \in {} |-> None]
Put(map, key, val) == [k \in (DOMAIN map) \cup {key} |-> IF k = key THEN val ELSE map[k]]
Delete(map, key) == [k \in (DOMAIN map) \ {key} |-> map[k]]
\* formData[name]: a missing key reads as undefined
Get(map, key) == IF key \in DOMAIN map THEN map[key] ELSE Undefined

NoErrors == EmptyMap               \* {}: the empty ErrorMap
NoPayload == EmptyMap

\* The hooks' useState initial values
HooksInit ==
    /\ isSubmitting = FALSE
    /\ submitSuccess = FALSE
    /\ submitError = << >>
    /\ sheets = "idle"
    /\ backend = "idle"
    /\ payload = NoPayload
    /\ submitResult = "none"
    /\ warned = FALSE
    /\ ipLookup = "pending"
    /\ ipAddress = Str(<< >>)

RuleVarsIdle ==
    /\ value = Undefined
    /\ rules = NoRules
    /\ result = None
    /\ evaluated = 0

\* No environment read, no configuration built, no option picked
NoConfig == [built |-> FALSE]
EnvIdle ==
    /\ env = EmptyMap
    /\ CONFIG = NoConfig
    /\ selected = Undefined

\* No field component blurred, no FormBuilder render observed
ViewIdle ==
    /\ internalError = None
    /\ onValidateCalls = 0
    /\ controls = {}

ruleVars == <<value, rules, result, evaluated>>
viewVars == <<internalError, onValidateCalls, controls>>
envVars == <<env, CONFIG, selected>>
hookVars == <<isSubmitting, submitSuccess, submitError, sheets, backend, payload,
              submitResult, warned, ipLookup, ipAddress>>

(***************************************************************************)
(* SpecRule: validateField applied to one value and one rule list          *)
(***************************************************************************)
RuleValues ==
    {Undefined, Null, NaN, Bool(TRUE), Bool(FALSE), Num(0), Num(1), Num(2),
     Str(<< >>), Str(<<" ">>), Str(<<" ", " ">>), Str(<<"a">>), Str(<<" ", "a">>),
     Str(<<"a", "a">>), Str(<<"a", "a", "a", "a", "a", "a">>), Str(<<"5">>),
     Str(<<"a", "@", "a">>), Str(<<"a", "@", "a", ".", "a">>)}

RuleSet ==
    {required, email,
     min(1), Rule("min", FALSE, 0, "", "", "min sin valor"),
     max(1), Rule("max", FALSE, 0, "", "", "max sin valor"),
     minLength(5), Rule("minLength", FALSE, 0, "", "", "minLength sin valor"),
     maxLength(2), Rule("maxLength", FALSE, 0, "", "", "maxLength sin valor"),
     pattern("^a+$"), pattern(""),
     custom("isTrue", "You must accept the terms to continue"),
     custom("hasLower", "Password must contain at least one lowercase letter"),
     custom("", "custom sin validator")}

RuleLists == UNION {[1..m -> RuleSet] : m \in 0..MaxRules}
RuleArgs == {NoRules} \cup {Rules(list) : list \in RuleLists}

InitRule ==
    /\ form = "rule"
    /\ pc = "call"
    /\ value \in RuleValues
    /\ rules \in RuleArgs
    /\ result = None
    /\ evaluated = 0
    /\ formConfig = << >>
    /\ formData = EmptyMap
    /\ errors = NoErrors
    /\ includeBackend = FALSE
    /\ HooksInit
    /\ EnvIdle
    /\ ViewIdle

\* validateField(value, rules)
CallValidateField ==
    /\ form = "rule"
    /\ pc = "call"
    /\ result' = validateFieldRun(value, rules).message
    /\ evaluated' = validateFieldRun(value, rules).calls
    /\ pc' = "done"
    /\ UNCHANGED <<form, value, rules, formConfig, formData, errors, includeBackend>>
    /\ UNCHANGED hookVars
    /\ UNCHANGED envVars
    /\ UNCHANGED viewVars

NextRule == CallValidateField

SpecRule == InitRule /\ [][NextRule]_vars

RuleDone == form = "rule" /\ pc = "done"

\* A string made only of whitespace (the empty string included)
AllWhitespace(s) == \A k \in 1..Len(s) : s[k] = " "

\* The index of the first rule of the list that fails on v, 0 when none does
FirstFailing(v, list) ==
    IF \E k \in 1..Len(list) : validateRule(v, list[k]) # None
    THEN CHOOSE k \in 1..Len(list) :
            /\ validateRule(v, list[k]) # None
            /\ \A j \in 1..(k - 1) : validateRule(v, list[j]) = None
    ELSE 0

\* C4: validateField returns the message of the first failing rule in declared
\* order and evaluates no rule after it; [required, minLength(5)] on "" gives the
\* required message; an empty or absent rule list gives none.
C4_FirstFailingRuleWins ==
    RuleDone =>
        /\ (~rules.has \/ rules.list = << >>) => (result = None /\ evaluated = 0)
        /\ (rules.has /\ rules.list # << >>) =>
              LET k == FirstFailing(value, rules.list)
              IN IF k = 0
                 THEN result = None /\ evaluated = Len(rules.list)
                 ELSE result = rules.list[k].message /\ evaluated = k
        /\ (rules = Rules(<<required, minLength(5)>>) /\ value = Str(<< >>))
              => result = required.message

C4_Witness ==
    /\ RuleDone
    /\ rules = Rules(<<required, minLength(5)>>)
    /\ value = Str(<< >>)
    /\ result = required.message
    /\ evaluated = 1

\* C5: a required rule yields its message exactly on null, undefined, "" and
\* whitespace-only strings; 0, false and strings with a non-whitespace character pass.
C5_RequiredEmptiness ==
    (RuleDone /\ rules.has /\ Len(rules.list) = 1 /\ rules.list[1].type = "required") =>
        /\ result = rules.list[1].message
              <=> \/ value \in {Null, Undefined}
                  \/ (value.t = "string" /\ AllWhitespace(value.s))
        /\ result \in {rules.list[1].message, None}
        /\ value \in {Num(0), Bool(FALSE)} => result = None

C5_Witness ==
    /\ RuleDone
    /\ rules = Rules(<<required>>)
    /\ value = Num(0)
    /\ result = None

\* C8: a rule passes when the value's type does not match its kind, email and
\* pattern also pass on "", and a rule without threshold or predicate passes always.
C8_TypeMismatchPasses ==
    (RuleDone /\ rules.has /\ Len(rules.list) = 1) =>
        LET r == rules.list[1]
        IN /\ (r.type \in {"email", "minLength", "maxLength", "pattern"}
                 /\ value.t # "string") => result = None
           /\ (r.type \in {"min", "max"} /\ value.t \notin {"number", "nan"})
                 => result = None
           /\ (r.type \in {"email", "pattern"} /\ value = Str(<< >>)) => result = None
           /\ (r.type \in {"min", "max", "minLength", "maxLength"} /\ ~r.hasValue)
                 => result = None
           /\ (r.type = "pattern" /\ r.pattern = "") => result = None
           /\ (r.type = "custom" /\ r.validator = "") => result = None

C8_Witness ==
    /\ RuleDone
    /\ rules = Rules(<<min(1)>>)
    /\ value = Str(<<"5">>)
    /\ result = None

(***************************************************************************)
(* FormConfig and the form-level validator                                 *)
(***************************************************************************)
Field(fieldType, name, show, req, validationRules, onValidate) ==
    [fieldType |-> fieldType, name |-> name, show |-> show, required |-> req,
     validationRules |-> validationRules, onValidate |-> onValidate]
Section(show, fields) == [show |-> show, fields |-> fields]

\* field.onValidate(value), for the custom validators the model uses
OnValidateCall(onValidate, v) ==
    CASE onValidate = "rejectAll" -> "onValidate rejected"
      [] onValidate = "rejectFalsy" -> IF Truthy(v) THEN None ELSE "onValidate rejected"
      [] OTHER -> None

RequiredMessage == "This field is required"

validateFormField_StrictCheckbox(field, v) ==
    LET ruleError == IF field.validationRules.has
                     THEN validateField(v, field.validationRules) ELSE None
        customError == IF field.onValidate # ""
                       THEN OnValidateCall(field.onValidate, v) ELSE None
    IN IF ruleError # None THEN ruleError
       ELSE IF customError # None THEN customError
       ELSE IF field.required /\ field.fieldType = "checkbox" /\ v # Bool(TRUE)
            THEN RequiredMessage
       ELSE IF field.required /\ field.fieldType # "checkbox"
               /\ (v.t \in {"null", "undefined"} \/ (v.t = "string" /\ Trim(v.s) = << >>))
            THEN RequiredMessage
       ELSE None

validateFormField_RulesOnly(field, v) ==
    IF field.validationRules.has THEN validateField(v, field.validationRules) ELSE None

\* const validateFormField = (field, value) => string | undefined
validateFormField(field, v) ==
    LET ruleError == IF field.validationRules.has
                     THEN validateField(v, field.validationRules) ELSE None
        customError == IF field.onValidate # ""
                       THEN OnValidateCall(field.onValidate, v) ELSE None
    IN IF ruleError # None THEN ruleError
       ELSE IF customError # None THEN customError
       ELSE IF field.required /\ field.fieldType = "checkbox"
            THEN IF ~Truthy(v) \/ v = Bool(FALSE) THEN RequiredMessage ELSE None
       ELSE IF field.required
               /\ \/ v.t = "null"
                  \/ v.t = "undefined"
                  \/ (v.t = "string" /\ v.s = << >>)
                  \/ (v.t = "string" /\ Trim(v.s) = << >>)
            THEN RequiredMessage
       ELSE None

FieldIsValidated_IgnoreShow(section, field) == field.fieldType # "paragraph"

\* The three `continue` guards of validateFormConfig
FieldIsValidated(section, field) ==
    /\ section.show # Bool(FALSE)
    /\ field.show # Bool(FALSE)
    /\ field.fieldType # "paragraph"

\* The inner loop of validateFormConfig over section.fields from field k on
RECURSIVE validateFields(_, _, _, _)
validateFields(data, section, k, acc) ==
    IF k > Len(section.fields) THEN acc
    ELSE LET field == section.fields[k]
             fieldError == validateFormField(field, Get(data, field.name))
         IN validateFields(data, section, k + 1,
               IF FieldIsValidated(section, field) /\ fieldError # None
               THEN Put(acc, field.name, fieldError) ELSE acc)

\* The outer loop of validateFormConfig over formConfig.sections from section k on
RECURSIVE validateSections(_, _, _, _)
validateSections(data, config, k, acc) ==
    IF k > Len(config) THEN acc
    ELSE validateSections(data, config, k + 1, validateFields(data, config[k], 1, acc))

\* export const validateFormConfig = (formData, formConfig) => Record<string, string>
validateFormConfig(data, config) == validateSections(data, config, 1, EmptyMap)

hasValidationErrors_Never(errs) == FALSE

\* export const hasValidationErrors = (errors) => Object.keys(errors).length > 0
hasValidationErrors(errs) == Cardinality(DOMAIN errs) > 0

(***************************************************************************)
(* SpecValidate: validateFormConfig applied to one FormData and FormConfig *)
(***************************************************************************)
FieldKinds == {"input", "select", "checkbox", "radio", "textarea", "paragraph"}
ShowValues == {Undefined, Bool(TRUE), Bool(FALSE)}
FieldRules ==
    {NoRules, Rules(<< >>), Rules(<<required>>), Rules(<<required, email>>), Rules(<<email>>),
     Rules(<<custom("isTrue", "You must accept the terms to continue")>>)}
OnValidates == {"", "rejectFalsy"}

\* The field under test, named "a"
FieldsA ==
    {Field(kind, "a", show, req, rs, ov) :
        kind \in FieldKinds, show \in ShowValues, req \in BOOLEAN,
        rs \in FieldRules, ov \in OnValidates}
\* Its neighbour in the next section, named "b"
FieldB == Field("input", "b", Undefined, TRUE, NoRules, "")

TestConfigs ==
    {<<Section(show, <<fa>>), Section(Undefined, <<FieldB>>)>> :
        show \in ShowValues, fa \in FieldsA}

FormValues ==
    {Undefined, Null, NaN, Bool(TRUE), Bool(FALSE), Num(0), Num(1),
     Str(<< >>), Str(<<" ">>), Str(<<"a">>), Str(<<"a", "@", "a", ".", "a">>)}

TestData ==
    {EmptyMap} \cup {Put(EmptyMap, "a", v) : v \in FormValues}
    \cup {Put(Put(EmptyMap, "a", v), "b", Str(<<"a">>)) : v \in FormValues}

\* Scenario 1: one visible required input named email with [required(), email()]
EmailField == Field("input", "email", Undefined, TRUE, Rules(<<required, email>>), "")
EmailConfig == <<Section(Undefined, <<EmailField>>)>>
EmailData ==
    {EmptyMap} \cup {Put(EmptyMap, "email", Str(s)) : s \in StringsUpTo(MaxLen)}

InitValidate ==
    /\ form = "validate"
    /\ pc = "call"
    /\ \/ formConfig \in TestConfigs /\ formData \in TestData
       \/ formConfig = EmailConfig /\ formData \in EmailData
    /\ errors = NoErrors
    /\ includeBackend = FALSE
    /\ RuleVarsIdle
    /\ HooksInit
    /\ EnvIdle
    /\ ViewIdle

\* validateFormConfig(formData, formConfig)
CallValidateFormConfig ==
    /\ form = "validate"
    /\ pc = "call"
    /\ errors' = validateFormConfig(formData, formConfig)
    /\ pc' = "done"
    /\ UNCHANGED <<form, formConfig, formData, includeBackend>>
    /\ UNCHANGED ruleVars
    /\ UNCHANGED envVars
    /\ UNCHANGED viewVars
    /\ UNCHANGED hookVars

NextValidate == CallValidateFormConfig

SpecValidate == InitValidate /\ [][NextValidate]_vars

ValidateDone == form = "validate" /\ pc = "done"

\* The fields of a config with the section each lies in
FieldsOf(config) ==
    UNION {{[section |-> config[i], field |-> config[i].fields[j]] :
               j \in 1..Len(config[i].fields)} : i \in 1..Len(config)}

\* A field the form does not show: hidden itself, in a hidden section, or a paragraph
Hidden(sf) ==
    \/ sf.field.show = Bool(FALSE)
    \/ sf.section.show = Bool(FALSE)
    \/ sf.field.fieldType = "paragraph"

\* The field's value fails what is configured on it
FailsItsConfig(sf, data) == validateFormField(sf.field, Get(data, sf.field.name)) # None

\* C3: the ErrorMap returned by validateFormConfig has no key naming a field with
\* show=false, in a section with show=false, or of type paragraph, whatever its value.
\* (Field names are unique within a FormConfig.)
C3_HiddenFieldsNotValidated ==
    ValidateDone =>
        \A sf \in FieldsOf(formConfig) : Hidden(sf) => sf.field.name \notin DOMAIN errors

C3_Witness ==
    /\ ValidateDone
    /\ \E sf \in FieldsOf(formConfig) :
          /\ sf.field.show = Bool(FALSE)
          /\ sf.section.show # Bool(FALSE)
          /\ sf.field.fieldType = "input"
          /\ FailsItsConfig(sf, formData)
          /\ sf.field.name \notin DOMAIN errors
    /\ "b" \in DOMAIN errors

\* A visible field with required=true, no validationRules and no custom validator
RequiredOnly(sf) ==
    /\ ~Hidden(sf)
    /\ sf.field.required
    /\ ~sf.field.validationRules.has
    /\ sf.field.onValidate = ""

\* C6 as claimed: a required checkbox without rules gets an error whenever its value
\* is anything other than the boolean true.
C6_CheckboxStrictlyTrue ==
    ValidateDone =>
        \A sf \in FieldsOf(formConfig) :
            (RequiredOnly(sf) /\ sf.field.fieldType = "checkbox") =>
                (sf.field.name \in DOMAIN errors <=> Get(formData, sf.field.name) # Bool(TRUE))

\* C6 as amended: a required checkbox without rules gets an error exactly when its
\* value is falsy; every other kind exactly when the value is null, undefined, ""
\* or a whitespace-only string.
C6_RequiredFallback ==
    ValidateDone =>
        \A sf \in FieldsOf(formConfig) :
            RequiredOnly(sf) =>
                LET v == Get(formData, sf.field.name)
                IN IF sf.field.fieldType = "checkbox"
                   THEN /\ sf.field.name \in DOMAIN errors
                            <=> v \in {Undefined, Null, NaN, Bool(FALSE), Num(0), Str(<< >>)}
                        /\ v = Bool(TRUE) => sf.field.name \notin DOMAIN errors
                   ELSE sf.field.name \in DOMAIN errors
                            <=> \/ v \in {Null, Undefined}
                                \/ (v.t = "string" /\ AllWhitespace(v.s))

C6_Witness ==
    /\ ValidateDone
    /\ \E sf \in FieldsOf(formConfig) :
          /\ RequiredOnly(sf)
          /\ sf.field.fieldType = "checkbox"
          /\ Get(formData, sf.field.name) = Num(1)
          /\ sf.field.name \notin DOMAIN errors

\* local@domain.tld without whitespace: one "@" with text before it, and after it
\* a "." with text on both sides
CountOf(c, s) == Cardinality({k \in 1..Len(s) : s[k] = c})
AtIndex(s) == CHOOSE k \in 1..Len(s) : s[k] = "@"
WellFormedAddress(s) ==
    /\ CountOf("@", s) = 1
    /\ CountOf(" ", s) = 0
    /\ AtIndex(s) > 1
    /\ \E j \in (AtIndex(s) + 2)..(Len(s) - 1) : s[j] = "."

\* C7: with one visible required input email with rules [required(), email()],
\* a missing, empty or whitespace email gives {email: required message}, any other
\* string that is not a well-formed address {email: email message}, a well-formed
\* address the empty map.
C7_EmailScenario ==
    (ValidateDone /\ formConfig = EmailConfig) =>
        IF "email" \notin DOMAIN formData \/ AllWhitespace(formData["email"].s)
        THEN errors = Put(EmptyMap, "email", required.message)
        ELSE IF WellFormedAddress(formData["email"].s)
             THEN errors = EmptyMap
             ELSE errors = Put(EmptyMap, "email", email.message)

C7_Witness ==
    /\ ValidateDone
    /\ formConfig = EmailConfig
    /\ formData = Put(EmptyMap, "email", Str(<<"a", "@", "a", ".", "a">>))
    /\ errors = EmptyMap

(***************************************************************************)
(* SpecConfig: the module that builds CONFIG from import.meta.env          *)
(***************************************************************************)
DigitValue(c) ==
    CASE c = "0" -> 0 [] c = "1" -> 1 [] c = "2" -> 2 [] c = "3" -> 3 [] c = "4" -> 4
      [] c = "5" -> 5 [] c = "6" -> 6 [] c = "7" -> 7 [] c = "8" -> 8 [] c = "9" -> 9
      [] OTHER -> -1

RECURSIVE DecimalValue(_)
DecimalValue(s) ==
    IF s = << >> THEN 0
    ELSE 10 * DecimalValue(SubSeq(s, 1, Len(s) - 1)) + DigitValue(s[Len(s)])

\* Number(selectedValue) for texts of decimal digits, spaces and letters: the text
\* is trimmed, the empty text gives 0, a decimal numeral its value, any other NaN
NumberOfText(s) ==
    LET t == Trim(s)
    IN IF t = << >> THEN Num(0)
       ELSE IF \A k \in 1..Len(t) : DigitValue(t[k]) >= 0 THEN Num(DecimalValue(t))
       ELSE NaN

\* throw new Error(...) and return, as the outcome of one helper call
Thrown(message, key) == [ok |-> FALSE, error |-> message, key |-> key, val |-> Undefined]
Returned(v) == [ok |-> TRUE, error |-> "", key |-> "", val |-> v]

MissingVariable == "Missing required environment variable"

\* const getRequiredEnvVar = (key: string): string
getRequiredEnvVar(e, key) ==
    LET v == Get(e, key)
    IN IF ~Truthy(v) THEN Thrown(MissingVariable, key) ELSE Returned(v)

getRequiredEnvNumber_Default(e, key) ==
    LET v == Get(e, key)
    IN IF ~Truthy(v) THEN Thrown(MissingVariable, key)
       ELSE IF NumberOfText(v.s) = NaN THEN Returned(Num(0))
       ELSE Returned(NumberOfText(v.s))

\* const getRequiredEnvNumber = (key: string): number
getRequiredEnvNumber(e, key) ==
    LET v == Get(e, key)
    IN IF ~Truthy(v) THEN Thrown(MissingVariable, key)
       ELSE IF NumberOfText(v.s) = NaN THEN Thrown("Invalid number", key)
       ELSE Returned(NumberOfText(v.s))

\* const getRequiredEnvBoolean = (key: string): boolean
getRequiredEnvBoolean(e, key) ==
    LET v == Get(e, key)
    IN IF v = Undefined \/ v = Str(<< >>) THEN Thrown(MissingVariable, key)
       ELSE IF v = Str(<<"true">>) THEN Returned(Bool(TRUE))
       ELSE IF v = Str(<<"false">>) THEN Returned(Bool(FALSE))
       ELSE Thrown("Invalid boolean", key)

\* The property initialisers of `export const CONFIG: AppConfig = {...}`, in order
ConfigParts(e) ==
    << getRequiredEnvVar(e, "VITE_GOOGLE_SHEETS_URL"),
       getRequiredEnvVar(e, "VITE_API_ENDPOINT"),
       getRequiredEnvNumber(e, "VITE_MIN_SAVINGS_AMOUNT"),
       getRequiredEnvNumber(e, "VITE_MAX_INSTALLMENTS"),
       getRequiredEnvBoolean(e, "VITE_FORM_CLOSED") >>

\* CONFIG: the first initialiser that throws ends the module's evaluation and no
\* object is made; otherwise the object holds the five returned values
BuildConfig(e) ==
    LET parts == ConfigParts(e)
        failed == {i \in 1..Len(parts) : ~parts[i].ok}
    IN IF failed # {}
       THEN LET first == CHOOSE i \in failed : \A j \in failed : i <= j
            IN [built |-> TRUE, ok |-> FALSE, error |-> parts[first].error,
                key |-> parts[first].key, object |-> << >>]
       ELSE [built |-> TRUE, ok |-> TRUE, error |-> "", key |-> "",
             object |-> [googleSheetsUrl |-> parts[1].val,
                         apiEndpoint |-> parts[2].val,
                         minSavingsAmount |-> parts[3].val,
                         maxInstallments |-> parts[4].val,
                         formClosed |-> parts[5].val]]

\* The values a line of .env can give a setting; a setting without a line is missing
UrlTexts == {<< >>, <<"https://example.test/exec">>}
NumberTexts == {<< >>, <<"2", "5", "0", "0", "0", "0">>, <<"1", "2">>, <<" ">>, <<"a">>}
BooleanTexts == {<< >>, <<"true">>, <<"false">>, <<"1">>}

SettingTexts(key) ==
    IF key \in {"VITE_GOOGLE_SHEETS_URL", "VITE_API_ENDPOINT"} THEN UrlTexts
    ELSE IF key = "VITE_FORM_CLOSED" THEN BooleanTexts
    ELSE NumberTexts

SettingKeys ==
    {"VITE_GOOGLE_SHEETS_URL", "VITE_API_ENDPOINT", "VITE_MIN_SAVINGS_AMOUNT",
     "VITE_MAX_INSTALLMENTS", "VITE_FORM_CLOSED"}

Environments ==
    UNION {{e \in [present -> {Str(s) : s \in UrlTexts \cup NumberTexts \cup BooleanTexts}] :
                \A key \in present : e[key].s \in SettingTexts(key)} :
           present \in SUBSET SettingKeys}

InitConfig ==
    /\ form = "config"
    /\ pc = "load"
    /\ env \in Environments
    /\ CONFIG = NoConfig
    /\ selected = Undefined
    /\ formConfig = << >>
    /\ formData = EmptyMap
    /\ errors = NoErrors
    /\ includeBackend = FALSE
    /\ RuleVarsIdle
    /\ HooksInit
    /\ ViewIdle

\* The evaluation of config.ts when the application is loaded
LoadConfig ==
    /\ form = "config"
    /\ pc = "load"
    /\ CONFIG' = BuildConfig(env)
    /\ pc' = "done"
    /\ UNCHANGED <<form, formConfig, formData, errors, includeBackend, env, selected>>
    /\ UNCHANGED ruleVars
    /\ UNCHANGED hookVars
    /\ UNCHANGED viewVars

NextConfig == LoadConfig

SpecConfig == InitConfig /\ [][NextConfig]_vars

(***************************************************************************)
(* Form sessions.  A session is one mounted form component: the FormBuilder *)
(* examples on useFormSubmission, or the savings form on useSavingsForm.   *)
(***************************************************************************)
Text(s) == Str(s)
Empty == Str(<< >>)
Timestamp == Str(<<"2025-01-01T00:00:00.000Z">>)   \* new Date().toISOString()
IpValue == Str(<<"203.0.113.7">>)                   \* data.ip of the lookup

\* Record literals as maps
RECURSIVE MapOf(_)
MapOf(pairs) ==
    IF pairs = << >> THEN EmptyMap
    ELSE Put(MapOf(SubSeq(pairs, 1, Len(pairs) - 1)), pairs[Len(pairs)][1], pairs[Len(pairs)][2])

\* ContactFormExample: useState({...}) and resetForm
ContactDefaults ==
    MapOf(<< <<"name", Empty>>, <<"email", Empty>>, <<"phone", Empty>>,
             <<"subject", Empty>>, <<"message", Empty>>, <<"contactPreference", Empty>>,
             <<"newsletter", Bool(FALSE)>> >>)

\* ContactFormExample formConfig, abridged to one field of each shape of rule list:
\* name [required, minLength(2)], email [required, email], newsletter (no rules)
ContactFormConfig ==
    << Section(Undefined,
          << Field("input", "name", Undefined, TRUE,
                   Rules(<<requiredMsg("Name is required"),
                           minLengthMsg(2, "Name must be at least 2 characters")>>), ""),
             Field("input", "email", Undefined, TRUE,
                   Rules(<<requiredMsg("Email is required"), email>>), "") >>),
       Section(Undefined,
          << Field("checkbox", "newsletter", Undefined, FALSE, NoRules, "") >>) >>

\* RegistrationFormBuilderExample: useState({...}) and resetForm
RegistrationDefaults ==
    MapOf(<< <<"firstName", Empty>>, <<"lastName", Empty>>, <<"email", Empty>>,
             <<"phone", Empty>>, <<"username", Empty>>, <<"password", Empty>>,
             <<"confirmPassword", Empty>>, <<"country", Empty>>, <<"interests", Empty>>,
             <<"comments", Empty>>, <<"contactMethod", Empty>>,
             <<"newsletter", Bool(FALSE)>>, <<"terms", Bool(FALSE)>> >>)

\* RegistrationFormBuilderExample formConfig, abridged: password [required,
\* minLength], confirmPassword [required], terms (required checkbox, custom rule)
RegistrationFormConfig ==
    << Section(Undefined,
          << Field("input", "password", Undefined, TRUE,
                   Rules(<<requiredMsg("Password is required"),
                           minLengthMsg(2, "Password must be at least 8 characters")>>), ""),
             Field("input", "confirmPassword", Undefined, TRUE,
                   Rules(<<requiredMsg("Please confirm your password")>>), "") >>),
       Section(Undefined,
          << Field("checkbox", "terms", Undefined, TRUE,
                   Rules(<<custom("isTrue", "You must accept the terms to continue")>>),
                   "") >>) >>

BuilderForms == {"contact", "registration"}
DefaultsOf(f) == IF f = "contact" THEN ContactDefaults ELSE RegistrationDefaults
ConfigOf(f) == IF f = "contact" THEN ContactFormConfig ELSE RegistrationFormConfig

\* What the user can type into a text control, and tick in a checkbox
TypedTexts == {Empty, Text(<<"a">>), Text(<<"a", "@", "a", ".", "a">>)}
TypedPasswords == {Empty, Text(<<"a", "a">>), Text(<<"a", "a", "a">>)}

\* FormBuilder renders the field: the section is not skipped and FormInput's
\* `if (!show) return null` (show defaults to true) does not fire
Rendered(sf) ==
    /\ sf.section.show # Bool(FALSE)
    /\ Truthy(IF sf.field.show = Undefined THEN Bool(TRUE) ELSE sf.field.show)
    /\ sf.field.fieldType \in {"input", "select", "checkbox", "radio", "textarea"}

\* The values the control's onChange can emit
ControlValues(field) ==
    IF field.fieldType = "checkbox" THEN {Bool(TRUE), Bool(FALSE)}
    ELSE IF field.name \in {"password", "confirmPassword"} THEN TypedPasswords
    ELSE TypedTexts

BuilderNames == {"name", "email", "newsletter", "password", "confirmPassword", "terms"}
BuilderValues == TypedTexts \cup TypedPasswords \cup {Bool(TRUE), Bool(FALSE)}

\* handleChange: `if (errors[name]) setErrors(... delete newErrors[name] ...)`
ClearError_Keep(errs, name) == errs
ClearError(errs, name) ==
    IF name \in DOMAIN errs /\ errs[name] # None THEN Delete(errs, name) ELSE errs

\* const handleChange = (name, value) => {...}  (both FormBuilder examples)
HandleChange(name, v) ==
    /\ form \in BuilderForms
    /\ ~submitSuccess
    /\ \E sf \in FieldsOf(formConfig) :
          Rendered(sf) /\ sf.field.name = name /\ v \in ControlValues(sf.field)
    /\ v # Get(formData, name)
    /\ formData' = Put(formData, name, v)
    /\ errors' = ClearError(errors, name)
    /\ UNCHANGED <<form, pc, formConfig, includeBackend>>
    /\ UNCHANGED ruleVars
    /\ UNCHANGED envVars
    /\ UNCHANGED viewVars
    /\ UNCHANGED hookVars

\* RegistrationFormBuilderExample.handleSubmit: the password match check added to
\* the map validateFormConfig returned
PasswordCheck(f, data, errs) ==
    IF /\ f = "registration"
       /\ Truthy(Get(data, "password"))
       /\ Truthy(Get(data, "confirmPassword"))
       /\ Get(data, "password") # Get(data, "confirmPassword")
    THEN Put(errs, "confirmPassword", "Passwords do not match")
    ELSE errs

\* validationErrors of handleSubmit
BuilderValidation(f, data, config) == PasswordCheck(f, data, validateFormConfig(data, config))

\* submitForm: submissionData (includeIpAddress and includeTimestamp default to true)
SubmissionData(data, ip) == Put(Put(data, "ipaddress", ip), "timestamp", Timestamp)

SubmitDisabled_Never(submitting) == FALSE

\* disabled={isSubmitting} of the submit button
SubmitDisabled(submitting) == submitting

\* The label of the submit button: loadingLabel while isSubmitting, else label
SubmitLabel(submitting) == IF submitting THEN "loadingLabel" ELSE "label"

SubmitErrorAtStart_Kept(previous) == previous

\* setSubmitError('') at the start of a submission
SubmitErrorAtStart(previous) == << >>

\* const handleSubmit = async (e) => {...} up to the await of submitForm's Promise.all
HandleSubmit ==
    /\ form \in BuilderForms
    /\ ~submitSuccess
    /\ ~SubmitDisabled(isSubmitting)
    /\ LET validationErrors == BuilderValidation(form, formData, formConfig)
       IN IF hasValidationErrors(validationErrors)
          THEN /\ errors' = validationErrors
               /\ UNCHANGED <<pc, isSubmitting, submitError, sheets, backend, payload,
                              submitResult, warned>>
          ELSE /\ errors' = NoErrors
               /\ submitError' = SubmitErrorAtStart(submitError)
               /\ isSubmitting' = TRUE
               /\ payload' = SubmissionData(formData, ipAddress)
               /\ sheets' = "pending"
               /\ backend' = IF includeBackend THEN "pending" ELSE "idle"
               /\ submitResult' = "none"
               /\ warned' = FALSE
               /\ pc' = "awaiting"
    /\ UNCHANGED <<form, formConfig, formData, includeBackend, submitSuccess, ipLookup,
                   ipAddress>>
    /\ UNCHANGED ruleVars
    /\ UNCHANGED envVars
    /\ UNCHANGED viewVars

\* submitToGoogleSheets resolves: success unless fetch threw
SheetsResponds(ok) ==
    /\ sheets = "pending"
    /\ sheets' = IF ok THEN "ok" ELSE "fail"
    /\ UNCHANGED <<form, pc, formConfig, formData, errors, includeBackend, isSubmitting,
                   submitSuccess, submitError, backend, payload, submitResult, warned,
                   ipLookup, ipAddress>>
    /\ UNCHANGED ruleVars
    /\ UNCHANGED envVars
    /\ UNCHANGED viewVars

\* submitToBackend resolves: success unless fetch threw, the body was no JSON, or !response.ok
BackendResponds(ok) ==
    /\ backend = "pending"
    /\ backend' = IF ok THEN "ok" ELSE "fail"
    /\ UNCHANGED <<form, pc, formConfig, formData, errors, includeBackend, isSubmitting,
                   submitSuccess, submitError, sheets, payload, submitResult, warned,
                   ipLookup, ipAddress>>
    /\ UNCHANGED ruleVars
    /\ UNCHANGED envVars
    /\ UNCHANGED viewVars

AllResponded_PrimaryOnly == sheets \in {"ok", "fail"}

AllResponded_Never == FALSE

\* Promise.all(submissions) has resolved
AllResponded == sheets \in {"ok", "fail"} /\ backend # "pending"

SheetsError == "Google Sheets: Failed to fetch"
BackendError == "Backend: Failed to fetch"

\* errorMessages of the failure branch; join(' | ') keeps the parts in this order
ErrorMessages(backendFailed) ==
    IF backendFailed THEN <<SheetsError, BackendError>> ELSE <<SheetsError>>

PrimarySucceeded_Both(sheetsOutcome, backendOutcome) ==
    sheetsOutcome = "ok" /\ backendOutcome # "fail"

\* `if (sheetsResponse.success)` of submitForm
PrimarySucceeded(sheetsOutcome, backendOutcome) == sheetsOutcome = "ok"

\* submitForm from `const [sheetsResponse, backendResponse] = await ...` to its return
SubmitFormJoin ==
    /\ form \in BuilderForms
    /\ pc = "awaiting"
    /\ AllResponded
    /\ LET backendFailed == includeBackend /\ backend = "fail"
       IN IF PrimarySucceeded(sheets, backend)
          THEN /\ submitSuccess' = TRUE
               /\ warned' = backendFailed
               /\ submitResult' = "true"
               /\ UNCHANGED submitError
          ELSE /\ submitError' = ErrorMessages(backendFailed)
               /\ submitResult' = "false"
               /\ UNCHANGED <<submitSuccess, warned>>
    /\ isSubmitting' = FALSE
    /\ pc' = "idle"
    /\ sheets' = "idle"
    /\ backend' = "idle"
    /\ payload' = NoPayload
    /\ UNCHANGED <<form, formConfig, formData, errors, includeBackend, ipLookup, ipAddress>>
    /\ UNCHANGED ruleVars
    /\ UNCHANGED envVars
    /\ UNCHANGED viewVars

\* const resetForm = () => {...}: the button of the success view
ResetForm ==
    /\ form \in BuilderForms
    /\ submitSuccess
    /\ formData' = DefaultsOf(form)
    /\ submitSuccess' = FALSE
    /\ submitError' = << >>
    /\ isSubmitting' = FALSE
    /\ errors' = NoErrors
    /\ UNCHANGED <<form, pc, formConfig, includeBackend, sheets, backend, payload,
                   submitResult, warned, ipLookup, ipAddress>>
    /\ UNCHANGED ruleVars
    /\ UNCHANGED envVars
    /\ UNCHANGED viewVars

(***************************************************************************)
(* The savings form: useSavingsForm, utils/validation.ts, calculations     *)
(***************************************************************************)
MinSavingsAmount == 250000      \* the documented VITE_MIN_SAVINGS_AMOUNT
EffectMinimum == 250000         \* the literal of the installment effect

Mensual == Str(<<"Mensual">>)
Semestral == Str(<<"Semestral">>)
UnaCuota == Str(<<"Una cuota diciembre 2024">>)
Nomina == Str(<<"Nomina">>)

\* const initialFormData
initialFormData ==
    MapOf(<< <<"nombre_completo", Empty>>, <<"documento_identidad", Empty>>,
             <<"ciudad", Empty>>, <<"email", Empty>>, <<"meta_anual_ahorro", Num(0)>>,
             <<"frecuencia_ahorro", Empty>>, <<"numero_cuotas", Empty>>,
             <<"valor_cuota_mensual", Num(0)>>, <<"valor_cuota_semestral", Num(0)>>,
             <<"modalidad_ahorro", Empty>>, <<"polidatos", Bool(FALSE)>>,
             <<"terminos", Bool(FALSE)>>, <<"ipaddress", Empty>>, <<"timestamp", Empty>> >>)

\* Math.round(a / b) for a >= 0, b > 0
RoundDiv(a, b) == (2 * a + b) \div (2 * b)

\* Number(numero_cuotas)
NumberOf(v) == IF v.t = "number" THEN v.n ELSE 0

\* export const calculateInstallments = (annualGoal, numInstallments) => number
calculateInstallments(annualGoal, numInstallments) ==
    IF annualGoal = 0 \/ numInstallments <= 0 THEN 0
    ELSE RoundDiv(annualGoal, numInstallments)

\* export const calculateSemesterInstallment = (annualGoal) => number
calculateSemesterInstallment(annualGoal) == calculateInstallments(annualGoal, 2)

\* The body of the installment effect
InstallmentEffect(data) ==
    LET meta == data["meta_anual_ahorro"]
        frecuencia == data["frecuencia_ahorro"]
        cuotas == data["numero_cuotas"]
    IN IF ~Truthy(meta) \/ meta.n < EffectMinimum THEN data
       ELSE IF frecuencia = Mensual /\ Truthy(cuotas)
            THEN Put(Put(data, "valor_cuota_mensual",
                         Num(calculateInstallments(meta.n, NumberOf(cuotas)))),
                     "valor_cuota_semestral", Num(0))
       ELSE IF frecuencia = Semestral
            THEN Put(Put(data, "valor_cuota_semestral",
                         Num(calculateSemesterInstallment(meta.n))),
                     "valor_cuota_mensual", Num(0))
       ELSE data

\* The effect's dependency list
EffectDeps(data) ==
    <<data["meta_anual_ahorro"], data["frecuencia_ahorro"], data["numero_cuotas"]>>

\* setFormData(next) followed by the render's effects: the installment effect
\* runs when one of its dependencies changed
Commit(prev, next) ==
    IF EffectDeps(next) # EffectDeps(prev) THEN InstallmentEffect(next) ELSE next

\* export const validateEmail = (email) => boolean
validateEmail(v) == EmailRegexTest(v.s)

\* !data.x?.trim()
Blank(v) == v.t \in {"undefined", "null"} \/ Trim(v.s) = << >>

\* One `if (...) errors.x = ...` of validateForm
Check(errs, failed, name, message) == IF failed THEN Put(errs, name, message) ELSE errs

\* export const validateForm = (data) => FormErrors
validateForm(data) ==
    LET e1 == Check(EmptyMap, Blank(Get(data, "nombre_completo")),
                    "nombre_completo", "El nombre completo es requerido")
        e2 == Check(e1, Blank(Get(data, "documento_identidad")),
                    "documento_identidad", "El numero de identificacion es requerido")
        e3 == Check(e2, Blank(Get(data, "ciudad")), "ciudad", "La ciudad es requerida")
        e4 == IF Blank(Get(data, "email"))
              THEN Put(e3, "email", "El correo electronico es requerido")
              ELSE Check(e3, ~validateEmail(Get(data, "email")),
                         "email", "Por favor ingresa un correo electronico valido")
        e5 == Check(e4, \/ ~Truthy(Get(data, "meta_anual_ahorro"))
                        \/ Get(data, "meta_anual_ahorro").n < CONFIG.object.minSavingsAmount.n,
                    "meta_anual_ahorro", "La meta anual minima de ahorro es $min")
        e6 == Check(e5, ~Truthy(Get(data, "frecuencia_ahorro")),
                    "frecuencia_ahorro", "Selecciona una frecuencia de ahorro")
        e7 == Check(e6, /\ Get(data, "frecuencia_ahorro") = Mensual
                        /\ ~Truthy(Get(data, "numero_cuotas")),
                    "numero_cuotas", "Selecciona el numero de cuotas")
        e8 == Check(e7, ~Truthy(Get(data, "modalidad_ahorro")),
                    "modalidad_ahorro", "Selecciona una modalidad de ahorro")
        e9 == Check(e8, ~Truthy(Get(data, "polidatos")),
                    "polidatos", "Debes aceptar la politica de proteccion de datos")
    IN Check(e9, ~Truthy(Get(data, "terminos")),
             "terminos", "Debes aceptar las condiciones del programa")

\* export const hasErrors = (errors) => Object.keys(errors).length > 0
hasErrors(errs) == Cardinality(DOMAIN errs) > 0

\* The controls of SavingsForm that take one entry and keep it, in the order the
\* user fills them, with the value each one emits
PlainInputs ==
    << <<"polidatos", Bool(TRUE)>>,
       <<"nombre_completo", Text(<<"a">>)>>,
       <<"documento_identidad", Text(<<"1">>)>>,
       <<"ciudad", Text(<<"a">>)>>,
       <<"modalidad_ahorro", Nomina>>,
       <<"terminos", Bool(TRUE)>> >>

\* The controls of SavingsForm that call handleInputChange, with the values they
\* emit: the next plain control to fill, the email and goal inputs, and the
\* numero_cuotas select, which is rendered for the monthly frequency only and
\* whose placeholder option gives parseInt('') = NaN
SavingsInputs(data) ==
    {PlainInputs[i] : i \in {j \in 1..Len(PlainInputs) :
                                /\ ~Truthy(Get(data, PlainInputs[j][1]))
                                /\ \A k \in 1..(j - 1) : Truthy(Get(data, PlainInputs[k][1]))}}
    \cup {<<"email", Empty>>, <<"email", Text(<<"a">>)>>,
          <<"email", Text(<<"a", "@", "a", ".", "a">>)>>,
          <<"meta_anual_ahorro", Num(0)>>, <<"meta_anual_ahorro", Num(200000)>>,
          <<"meta_anual_ahorro", Num(250001)>>}
    \cup (IF Get(data, "frecuencia_ahorro") = Mensual
          THEN {<<"numero_cuotas", NaN>>, <<"numero_cuotas", Num(2)>>,
                <<"numero_cuotas", Num(3)>>}
          ELSE {})

\* Every name handleInputChange is called with
SavingsNames == {"nombre_completo", "documento_identidad", "ciudad", "modalidad_ahorro",
                 "polidatos", "terminos", "email", "meta_anual_ahorro", "numero_cuotas"}

Frequencies == {Empty, Mensual, Semestral, UnaCuota}

SavingsView_NoNotice(cfg, success) == IF success THEN "success" ELSE "form"

\* What SavingsForm renders: the closed notice when CONFIG.formClosed, else the
\* success view when submitSuccess, else the form
SavingsView(cfg, success) ==
    IF Truthy(cfg.object.formClosed) THEN "closed"
    ELSE IF success THEN "success"
    ELSE "form"

\* The .env files the savings form is deployed with
SavingsEnvironments ==
    {MapOf(<< <<"VITE_GOOGLE_SHEETS_URL", Str(<<"https://example.test/exec">>)>>,
               <<"VITE_API_ENDPOINT", Str(<<"https://example.test/exec">>)>>,
               <<"VITE_MIN_SAVINGS_AMOUNT", Str(<<"2", "5", "0", "0", "0", "0">>)>>,
               <<"VITE_MAX_INSTALLMENTS", Str(<<"1", "2">>)>>,
               <<"VITE_FORM_CLOSED", Str(closed)>> >>) :
        closed \in {<<"true">>, <<"false">>}}

\* const handleInputChange = useCallback((name, value) => {...}, [errors])
HandleInputChange(name, v) ==
    /\ form = "savings"
    /\ SavingsView(CONFIG, submitSuccess) = "form"
    /\ <<name, v>> \in SavingsInputs(formData)
    /\ v # Get(formData, name)
    /\ formData' = Commit(formData, Put(formData, name, v))
    /\ errors' = ClearError(errors, name)
    /\ UNCHANGED <<form, pc, formConfig, includeBackend>>
    /\ UNCHANGED ruleVars
    /\ UNCHANGED envVars
    /\ UNCHANGED viewVars
    /\ UNCHANGED hookVars

FrequencyUpdate_KeepValues(prev, frequency) ==
    [prev EXCEPT !["frecuencia_ahorro"] = frequency]

\* The updater handleFrequencyChange gives to setFormData
FrequencyUpdate(prev, frequency) ==
    [prev EXCEPT
        !["frecuencia_ahorro"] = frequency,
        !["numero_cuotas"] = IF frequency = Mensual THEN @ ELSE Empty,
        !["valor_cuota_mensual"] = IF frequency = Mensual THEN @ ELSE Num(0),
        !["valor_cuota_semestral"] = IF frequency = Semestral THEN @ ELSE Num(0)]

\* const handleFrequencyChange = useCallback((frequency) => {...}, [])
HandleFrequencyChange(frequency) ==
    /\ form = "savings"
    /\ SavingsView(CONFIG, submitSuccess) = "form"
    /\ frequency \in Frequencies
    /\ frequency # Get(formData, "frecuencia_ahorro")
    /\ formData' = Commit(formData, FrequencyUpdate(formData, frequency))
    /\ UNCHANGED <<form, pc, formConfig, errors, includeBackend>>
    /\ UNCHANGED ruleVars
    /\ UNCHANGED envVars
    /\ UNCHANGED viewVars
    /\ UNCHANGED hookVars

\* useSavingsForm.handleSubmit up to the await of Promise.all
SavingsHandleSubmit ==
    /\ form = "savings"
    /\ SavingsView(CONFIG, submitSuccess) = "form"
    /\ ~SubmitDisabled(isSubmitting)
    /\ submitError' = SubmitErrorAtStart(submitError)
    /\ LET validationErrors == validateForm(formData)
       IN IF hasErrors(validationErrors)
          THEN /\ errors' = validationErrors
               /\ UNCHANGED <<pc, isSubmitting, sheets, backend, payload, warned>>
          ELSE /\ isSubmitting' = TRUE
               /\ payload' = Put(formData, "timestamp", Timestamp)
               /\ sheets' = "pending"
               /\ backend' = "pending"
               /\ warned' = FALSE
               /\ pc' = "awaiting"
               /\ UNCHANGED errors
    /\ UNCHANGED <<form, formConfig, formData, includeBackend, submitSuccess, submitResult,
                   ipLookup, ipAddress>>
    /\ UNCHANGED ruleVars
    /\ UNCHANGED envVars
    /\ UNCHANGED viewVars

SavingsSucceeded_Both(sheetsOutcome, backendOutcome) ==
    sheetsOutcome = "ok" /\ backendOutcome = "ok"

\* `if (sheetsResponse.success)` of useSavingsForm.handleSubmit
SavingsSucceeded(sheetsOutcome, backendOutcome) == sheetsOutcome = "ok"

\* useSavingsForm.handleSubmit from `const [sheetsResponse, backendResponse] = await ...`
SavingsJoin ==
    /\ form = "savings"
    /\ pc = "awaiting"
    /\ AllResponded
    /\ IF SavingsSucceeded(sheets, backend)
       THEN /\ submitSuccess' = TRUE
            /\ formData' = Commit(formData, initialFormData)
            /\ warned' = (backend = "fail")
            /\ UNCHANGED submitError
       ELSE /\ submitError' = ErrorMessages(backend = "fail")
            /\ UNCHANGED <<submitSuccess, formData, warned>>
    /\ isSubmitting' = FALSE
    /\ pc' = "idle"
    /\ sheets' = "idle"
    /\ backend' = "idle"
    /\ payload' = NoPayload
    /\ UNCHANGED <<form, formConfig, errors, includeBackend, submitResult, ipLookup,
                   ipAddress>>
    /\ UNCHANGED ruleVars
    /\ UNCHANGED envVars
    /\ UNCHANGED viewVars

\* const resetForm = useCallback(() => {...}, []): the button of the success view
SavingsResetForm ==
    /\ form = "savings"
    /\ SavingsView(CONFIG, submitSuccess) = "success"
    /\ formData' = Commit(formData, initialFormData)
    /\ errors' = NoErrors
    /\ submitSuccess' = FALSE
    /\ submitError' = << >>
    /\ UNCHANGED <<form, pc, formConfig, includeBackend, isSubmitting, sheets, backend,
                   payload, submitResult, warned, ipLookup, ipAddress>>
    /\ UNCHANGED ruleVars
    /\ UNCHANGED envVars
    /\ UNCHANGED viewVars

\* getIpAddress() of the mount effect resolves: data.ip, or '' when the lookup failed
IpResolves(ip) ==
    /\ form \in BuilderForms \cup {"savings"}
    /\ ipLookup = "pending"
    /\ ip \in {IpValue, Empty}
    /\ ipLookup' = IF ip = IpValue THEN "done" ELSE "failed"
    /\ IF form = "savings"
       THEN formData' = Put(formData, "ipaddress", ip) /\ UNCHANGED ipAddress
       ELSE ipAddress' = ip /\ UNCHANGED formData
    /\ UNCHANGED <<form, pc, formConfig, errors, includeBackend, isSubmitting,
                   submitSuccess, submitError, sheets, backend, payload, submitResult,
                   warned>>
    /\ UNCHANGED ruleVars
    /\ UNCHANGED envVars
    /\ UNCHANGED viewVars

Init ==
    /\ form \in BuilderForms \cup {"savings"}
    /\ pc = "idle"
    /\ formConfig = IF form = "savings" THEN << >> ELSE ConfigOf(form)
    /\ formData = IF form = "savings" THEN initialFormData ELSE DefaultsOf(form)
    /\ errors = NoErrors
    /\ includeBackend \in IF form = "savings" THEN {TRUE} ELSE BOOLEAN
    /\ RuleVarsIdle
    /\ HooksInit
    /\ IF form = "savings"
       THEN env \in SavingsEnvironments /\ CONFIG = BuildConfig(env) /\ selected = Undefined
       ELSE EnvIdle
    /\ ViewIdle

Next ==
    \/ \E name \in BuilderNames, v \in BuilderValues : HandleChange(name, v)
    \/ HandleSubmit
    \/ SubmitFormJoin
    \/ ResetForm
    \/ \E input \in SavingsInputs(formData) : HandleInputChange(input[1], input[2])
    \/ \E frequency \in Frequencies : HandleFrequencyChange(frequency)
    \/ SavingsHandleSubmit
    \/ SavingsJoin
    \/ SavingsResetForm
    \/ \E ok \in BOOLEAN : SheetsResponds(ok)
    \/ \E ok \in BOOLEAN : BackendResponds(ok)
    \/ \E ip \in {IpValue, Empty} : IpResolves(ip)

Spec == Init /\ [][Next]_vars

(***************************************************************************)
(* Claims about form sessions                                              *)
(***************************************************************************)
\* validationErrors of the submit handler of the mounted form, for its current FormData
SessionValidation ==
    IF form = "savings" THEN validateForm(formData)
    ELSE BuilderValidation(form, formData, formConfig)

\* A step that issues a sink call
SinkIssued ==
    \/ sheets # "pending" /\ sheets' = "pending"
    \/ backend # "pending" /\ backend' = "pending"

\* C1: a submit handler issues a sink call only when the full-form validation of
\* the current FormData, run in that same attempt, returned an empty ErrorMap;
\* when the map is non-empty no sink is called, the map becomes the ErrorMap and
\* isSubmitting does not become true.
C1_SinkOnlyAfterValidation ==
    [][ /\ SinkIssued =>
             /\ HandleSubmit \/ SavingsHandleSubmit
             /\ DOMAIN SessionValidation = {}
        /\ ((HandleSubmit \/ SavingsHandleSubmit) /\ DOMAIN SessionValidation # {}) =>
             /\ errors' = SessionValidation
             /\ sheets' = sheets /\ sheets # "pending"
             /\ backend' = backend /\ backend # "pending"
             /\ ~isSubmitting /\ ~isSubmitting'
      ]_vars

\* An earlier attempt reached the sinks and failed; a later attempt on invalid data
\* was blocked and stored its map
C1_Witness ==
    /\ submitError # << >>
    /\ DOMAIN errors # {}
    /\ errors = SessionValidation
    /\ sheets = "idle" /\ backend = "idle"
    /\ ~isSubmitting

\* C2: when the sink calls of a submission have all resolved, submitForm returns
\* true and submitSuccess is set exactly when the primary sink succeeded, whatever
\* the secondary sink did and whether or not it was called.
C2_PrimaryDecides ==
    [][ (pc = "awaiting" /\ pc' = "idle") =>
            /\ submitSuccess' = (sheets = "ok")
            /\ form \in BuilderForms =>
                  submitResult' = IF sheets = "ok" THEN "true" ELSE "false"
      ]_vars

\* The primary sink succeeded and the secondary sink failed: success, with a warning
C2_Witness ==
    /\ form \in BuilderForms
    /\ submitSuccess
    /\ submitResult = "true"
    /\ warned

\* The step is a change handler's edit of the field `name`
Edits(name) ==
    \/ \E v \in BuilderValues : HandleChange(name, v)
    \/ \E input \in SavingsInputs(formData) : input[1] = name /\ HandleInputChange(name, input[2])
    \/ name = "frecuencia_ahorro" /\ \E frequency \in Frequencies : HandleFrequencyChange(frequency)

\* C10: after an edit of a field by any change handler of the form, the frequency
\* select's included, the ErrorMap has no entry for the edited field's name.
C10_EditClearsError ==
    [][ \A name \in BuilderNames \cup SavingsNames \cup {"frecuencia_ahorro"} :
            Edits(name) => name \notin DOMAIN errors'
      ]_vars

\* C11: after the validation pass of a submit attempt, the ErrorMap is exactly the
\* map that pass returned: empty when the pass found nothing, and with no entry
\* of an earlier pass left in it.
C11_ErrorMapReplaced ==
    [][ (HandleSubmit \/ SavingsHandleSubmit) => errors' = SessionValidation ]_vars

(***************************************************************************)
(* SpecSelect: a select or radio field of a FormBuilder form, whose        *)
(* options the user picks one after the other                              *)
(***************************************************************************)
\* value={formData[field.name] ?? ''} of FormBuilder.renderField
ValueProp(data, name) ==
    IF Get(data, name) \in {Undefined, Null} THEN Str(<< >>) ELSE Get(data, name)

SelectParsed_Raw(stored, raw) == Str(raw)

\* const parsedValue = typeof value === 'number' ? Number(selectedValue) : selectedValue
SelectParsed(stored, raw) ==
    IF TypeOf(stored) = "number" THEN NumberOfText(raw) ELSE Str(raw)

\* The value attributes of the options a select or radio field offers
OptionValues ==
    {<< >>, <<"0">>, <<"1">>, <<"2">>, <<"3">>, <<"1", "0">>, <<"1", "2">>, <<" ", "2">>,
     <<"a">>, <<"2", "a">>}

\* What FormData can hold for the field when the form is mounted
StoredValues == RuleValues \cup {Num(3)}

SelectConfigs ==
    {<< Section(Undefined, << Field(kind, "a", Undefined, FALSE, NoRules, "") >>) >> :
        kind \in {"select", "radio"}}

InitSelect ==
    /\ form = "select"
    /\ pc = "idle"
    /\ formConfig \in SelectConfigs
    /\ formData \in {EmptyMap} \cup {Put(EmptyMap, "a", v) : v \in StoredValues}
    /\ errors \in {NoErrors, Put(NoErrors, "a", RequiredMessage)}
    /\ includeBackend = FALSE
    /\ RuleVarsIdle
    /\ HooksInit
    /\ EnvIdle
    /\ ViewIdle

\* FormSelect.handleChange / FormRadioGroup.handleChange, with the onChange that
\* FormBuilder passes and the form's handleChange behind it
PickOption(raw) ==
    /\ form = "select"
    /\ raw \in OptionValues
    /\ \E sf \in FieldsOf(formConfig) : Rendered(sf) /\ sf.field.name = "a"
    /\ selected' = Str(raw)
    /\ formData' = Put(formData, "a", SelectParsed(ValueProp(formData, "a"), raw))
    /\ errors' = ClearError(errors, "a")
    /\ internalError' = None
    /\ UNCHANGED <<form, pc, formConfig, includeBackend, env, CONFIG, onValidateCalls,
                   controls>>
    /\ UNCHANGED ruleVars
    /\ UNCHANGED hookVars

NextSelect == \E raw \in OptionValues : PickOption(raw)

SpecSelect == InitSelect /\ [][NextSelect]_vars

\* C12: the value a select or radio field emits, and the form stores, is a number
\* exactly when the value stored for the field is a number, and the raw option
\* string otherwise; stored 3 and option "2" give the number 2.
C12_SelectCoercion ==
    [][ \A raw \in OptionValues :
            PickOption(raw) =>
                /\ (TypeOf(formData'["a"]) = "number") <=> (TypeOf(Get(formData, "a")) = "number")
                /\ TypeOf(Get(formData, "a")) # "number" => formData'["a"] = Str(raw)
                /\ (Get(formData, "a") = Num(3) /\ raw = <<"2">>) => formData'["a"] = Num(2)
      ]_vars

\* The option "2" was picked while a number was stored
C12_Witness ==
    /\ form = "select"
    /\ selected = Str(<<"2">>)
    /\ formData = Put(EmptyMap, "a", Num(2))

\* C13: the submission error shown to the user is one message about the primary
\* sink's failure; no error of the secondary sink is part of it.
C13_OnlyPrimaryError ==
    form \in BuilderForms \cup {"savings"} =>
        /\ Len(submitError) <= 1
        /\ \A i \in 1..Len(submitError) : submitError[i] = SheetsError

(***************************************************************************)
(* Claims about the configuration                                          *)
(***************************************************************************)
\* What the claim calls missing or empty, and the texts of the model that are
\* numerals, with the number each stands for
MissingOrEmpty(key) == key \notin DOMAIN env \/ env[key] = Str(<< >>)
NumeralValue ==
    (<<"2", "5", "0", "0", "0", "0">> :> 250000) @@ (<<"1", "2">> :> 12) @@ (<<" ">> :> 0)
IllFormed ==
    \/ \E key \in SettingKeys : MissingOrEmpty(key)
    \/ \E key \in {"VITE_MIN_SAVINGS_AMOUNT", "VITE_MAX_INSTALLMENTS"} :
          env[key].s \notin DOMAIN NumeralValue
    \/ env["VITE_FORM_CLOSED"].s \notin {<<"true">>, <<"false">>}

C15_ClosedFormIsInert ==
    (form = "savings" /\ CONFIG.object.formClosed = Bool(TRUE)) =>
        /\ SavingsView(CONFIG, submitSuccess) = "closed"
        /\ ~submitSuccess /\ ~isSubmitting
        /\ errors = NoErrors /\ submitError = << >>
        /\ sheets = "idle" /\ backend = "idle" /\ payload = NoPayload
        /\ [formData EXCEPT !["ipaddress"] = Empty] = initialFormData

\* The closed savings form after the IP lookup of its hook has resolved
C15_Witness ==
    /\ form = "savings"
    /\ CONFIG.object.formClosed = Bool(TRUE)
    /\ ipLookup = "done"
    /\ formData["ipaddress"] = IpValue

\* The default values of the mounted form's FormData
SessionDefaults == IF form = "savings" THEN initialFormData ELSE DefaultsOf(form)

\* C16: FormData equals its defaults right after every successful submission and
\* after every explicit reset, in every form session; a failed submission leaves
\* FormData as it was.
C16_ResetToDefaults ==
    [][ /\ ((SubmitFormJoin \/ SavingsJoin) /\ sheets = "ok") => formData' = SessionDefaults
        /\ ((SubmitFormJoin \/ SavingsJoin) /\ sheets # "ok") => formData' = formData
        /\ (ResetForm \/ SavingsResetForm) => formData' = SessionDefaults
      ]_vars

\* C17: at most one submission is in flight: the submit control is disabled, and
\* shows loadingLabel, in exactly the states between the start of a submission
\* and its completion, and no sink call is issued while one is in flight.
C17_OneSubmissionInFlight ==
    /\ [](form \in BuilderForms \cup {"savings"} =>
            /\ SubmitDisabled(isSubmitting) <=> (pc = "awaiting")
            /\ (SubmitLabel(isSubmitting) = "loadingLabel") <=> (pc = "awaiting")
            /\ (sheets # "idle" \/ backend # "idle" \/ payload # NoPayload) => pc = "awaiting")
    /\ [][ SinkIssued => (pc = "idle" /\ sheets = "idle" /\ backend = "idle") ]_vars

\* A submission in flight: one sink has answered, the other has not
C17_Witness ==
    /\ isSubmitting
    /\ pc = "awaiting"
    /\ sheets = "ok"
    /\ backend = "pending"

(***************************************************************************)
(* SpecShared: a FormBuilder form with two sections whose fields have the  *)
(* same name                                                               *)
(***************************************************************************)
SlotOf_PerSection(i, field) == IF i = 1 THEN field.name ELSE "section2"

\* The key of FormData a field is bound to: formData[field.name] in renderField's
\* value prop, onChange(field.name, value) in its onChange prop
SlotOf(i, field) == field.name

SharedKinds == {"input", "textarea", "select", "radio"}
SharedTexts == TypedTexts \cup {Text(<<" ">>), Text(<<"a", "a">>)}

SharedConfigs ==
    {<< Section(Undefined, << Field(k1, "a", Undefined, TRUE, Rules(<<required>>), "") >>),
        Section(Undefined, << Field(k2, "a", Undefined, FALSE, Rules(<<minLength(2)>>), "") >>) >> :
        k1 \in SharedKinds, k2 \in SharedKinds}

\* The field of section i
SharedField(i) == formConfig[i].fields[1]

InitShared ==
    /\ form = "shared"
    /\ pc = "idle"
    /\ formConfig \in SharedConfigs
    /\ formData = EmptyMap
    /\ errors = NoErrors
    /\ includeBackend = FALSE
    /\ RuleVarsIdle
    /\ HooksInit
    /\ EnvIdle
    /\ ViewIdle

\* The user changes the control of section i: renderField's
\* onChange={(value) => onChange(field.name, value)} and the form's handleChange
ChangeThrough(i, v) ==
    /\ form = "shared"
    /\ i \in 1..Len(formConfig)
    /\ v \in SharedTexts
    /\ v # ValueProp(formData, SlotOf(i, SharedField(i)))
    /\ formData' = Put(formData, SlotOf(i, SharedField(i)), v)
    /\ errors' = ClearError(errors, SlotOf(i, SharedField(i)))
    /\ UNCHANGED <<form, pc, formConfig, includeBackend>>
    /\ UNCHANGED ruleVars
    /\ UNCHANGED hookVars
    /\ UNCHANGED envVars
    /\ UNCHANGED viewVars

\* validateFormConfig(formData, formConfig), its result shown as the ErrorMap
ValidateShared ==
    /\ form = "shared"
    /\ errors' = validateFormConfig(formData, formConfig)
    /\ UNCHANGED <<form, pc, formConfig, formData, includeBackend>>
    /\ UNCHANGED ruleVars
    /\ UNCHANGED hookVars
    /\ UNCHANGED envVars
    /\ UNCHANGED viewVars

NextShared ==
    \/ \E i \in 1..2, v \in SharedTexts : ChangeThrough(i, v)
    \/ ValidateShared

SpecShared == InitShared /\ [][NextShared]_vars

\* C18: two fields of one config with the same name are bound to one FormData
\* slot: after a change through either, both render the new value, and
\* validateFormConfig validates both against that one value (the entry for the
\* name is the message of the last of them that fails).
C18_SharedNameSharedSlot ==
    [][ /\ \A i \in 1..2, v \in SharedTexts :
              ChangeThrough(i, v) =>
                  \A j \in 1..2 : ValueProp(formData', SharedField(j).name) = v
        /\ ValidateShared =>
              LET v == Get(formData, "a")
                  e1 == validateFormField(SharedField(1), v)
                  e2 == validateFormField(SharedField(2), v)
              IN errors' = IF e2 # None THEN Put(EmptyMap, "a", e2)
                           ELSE IF e1 # None THEN Put(EmptyMap, "a", e1)
                           ELSE EmptyMap
      ]_vars

\* One of the two fields was changed to " ": the required rule of the first field
\* fails and the minLength rule of the second gives the entry
C18_Witness ==
    /\ form = "shared"
    /\ formData = Put(EmptyMap, "a", Text(<<" ">>))
    /\ errors = Put(EmptyMap, "a", minLength(2).message)

(***************************************************************************)
(* SpecRaise: validateField on rule lists whose pattern sources may be no  *)
(* regular expressions                                                     *)
(***************************************************************************)
\* new RegExp(source) throws a SyntaxError: "(" is an unterminated group
RegExpThrows(source) == source = "("

\* validateRule(value, rule) ends by an exception: the pattern case constructs
\* the RegExp, outside any try block, once its three guards have passed
validateRuleThrows(v, rule) ==
    /\ rule.type = "pattern"
    /\ Truthy(v) /\ TypeOf(v) = "string" /\ rule.pattern # ""
    /\ RegExpThrows(rule.pattern)

\* validateField(value, rules) ends by an exception: the loop reaches a rule that
\* throws, no rule before it having returned a message
validateFieldThrows(v, rs) ==
    /\ rs.has
    /\ \E k \in 1..Len(rs.list) :
          /\ validateRuleThrows(v, rs.list[k])
          /\ \A j \in 1..(k - 1) :
                ~validateRuleThrows(v, rs.list[j]) /\ validateRule(v, rs.list[j]) = None

RaiseRuleSet ==
    {required, minLength(5), pattern("^a+$"), pattern("("),
     Rule("min", FALSE, 0, "", "", "min sin valor"), custom("", "custom sin validator")}

RaiseRuleLists == UNION {[1..m -> RaiseRuleSet] : m \in 0..MaxRules}

InitRaise ==
    /\ form = "raise"
    /\ pc = "call"
    /\ value \in RuleValues
    /\ rules \in {NoRules} \cup {Rules(list) : list \in RaiseRuleLists}
    /\ result = None
    /\ evaluated = 0
    /\ formConfig = << >>
    /\ formData = EmptyMap
    /\ errors = NoErrors
    /\ includeBackend = FALSE
    /\ HooksInit
    /\ EnvIdle
    /\ ViewIdle

\* validateField(value, rules): it returns a message or undefined, or is left by
\* the exception of a rule
CallValidateFieldRaise ==
    /\ form = "raise"
    /\ pc = "call"
    /\ IF validateFieldThrows(value, rules)
       THEN pc' = "raised" /\ UNCHANGED <<result, evaluated>>
       ELSE /\ pc' = "done"
            /\ result' = validateFieldRun(value, rules).message
            /\ evaluated' = validateFieldRun(value, rules).calls
    /\ UNCHANGED <<form, value, rules, formConfig, formData, errors, includeBackend>>
    /\ UNCHANGED hookVars
    /\ UNCHANGED envVars
    /\ UNCHANGED viewVars

NextRaise == CallValidateFieldRaise

SpecRaise == InitRaise /\ [][NextRaise]_vars

\* C19: validateField never raises an error, whatever the value and the rules;
\* an invalid value is reported through the returned message only.
C19_ValidationNeverThrows == form = "raise" => pc # "raised"

(***************************************************************************)
(* Claims about validateFormConfig, continued                              *)
(***************************************************************************)
\* C20: the built-in required check is applied only to fields without explicit
\* rules: a validated field with required=true, a non-empty rule list all of whose
\* rules pass, and no custom validator has no entry in the ErrorMap, even when its
\* value is empty.
C20_RequiredOnlyWithoutRules ==
    ValidateDone =>
        \A sf \in FieldsOf(formConfig) :
            ( /\ FieldIsValidated(sf.section, sf.field)
              /\ sf.field.required
              /\ sf.field.validationRules.has
              /\ Len(sf.field.validationRules.list) > 0
              /\ sf.field.onValidate = ""
              /\ \A k \in 1..Len(sf.field.validationRules.list) :
                    validateRule(Get(formData, sf.field.name),
                                 sf.field.validationRules.list[k]) = None )
            => sf.field.name \notin DOMAIN errors

(***************************************************************************)
(* SpecBlur: one field of a FormBuilder form loses the focus, then the     *)
(* form-level validator is applied to the same FormData                    *)
(***************************************************************************)
\* value={formData[field.name] ?? ''} / checked={formData[field.name] ?? false}
ControlValue(field, data) ==
    IF field.fieldType = "checkbox"
    THEN IF Get(data, field.name) \in {Undefined, Null} THEN Bool(FALSE)
         ELSE Get(data, field.name)
    ELSE ValueProp(data, field.name)

\* const handleBlur = () => {...} of FormInput, FormSelect, FormRadioGroup,
\* FormCheckbox and FormTextarea: the two `if` statements run one after the
\* other, each ending in setInternalError
handleBlur(current, field, v) ==
    LET afterRules == IF field.validationRules.has
                      THEN validateField(v, field.validationRules) ELSE current
    IN [error |-> IF field.onValidate # ""
                  THEN OnValidateCall(field.onValidate, v) ELSE afterRules,
        calls |-> IF field.onValidate # "" THEN 1 ELSE 0]

BlurRules ==
    {NoRules, Rules(<< >>), Rules(<<required>>), Rules(<<required, email>>),
     Rules(<<minLength(1)>>)}
BlurOnValidates == {"", "rejectFalsy", "rejectAll"}

BlurConfigs ==
    {<< Section(sectionShow, << Field(kind, "a", show, req, rs, ov) >>) >> :
        sectionShow \in {Undefined, Bool(FALSE)}, kind \in FieldKinds, show \in ShowValues,
        req \in BOOLEAN, rs \in BlurRules, ov \in BlurOnValidates}

BlurField == formConfig[1].fields[1]

InitBlur ==
    /\ form = "blur"
    /\ pc = "idle"
    /\ formConfig \in BlurConfigs
    /\ formData \in {EmptyMap} \cup {Put(EmptyMap, "a", v) : v \in FormValues}
    /\ errors = NoErrors
    /\ includeBackend = FALSE
    /\ RuleVarsIdle
    /\ HooksInit
    /\ EnvIdle
    /\ ViewIdle

\* onBlur={handleBlur} of the control FormBuilder rendered for the field
HandleBlur ==
    /\ form = "blur"
    /\ pc = "idle"
    /\ \E sf \in FieldsOf(formConfig) : Rendered(sf) /\ sf.field = BlurField
    /\ LET blur == handleBlur(internalError, BlurField, ControlValue(BlurField, formData))
       IN /\ internalError' = blur.error
          /\ onValidateCalls' = onValidateCalls + blur.calls
    /\ pc' = "blurred"
    /\ UNCHANGED <<form, formConfig, formData, errors, includeBackend, controls>>
    /\ UNCHANGED ruleVars
    /\ UNCHANGED envVars
    /\ UNCHANGED hookVars

\* validateFormConfig(formData, formConfig) on the FormData the field was blurred with
ValidateAfterBlur ==
    /\ form = "blur"
    /\ pc \in {"idle", "blurred"}
    /\ errors' = validateFormConfig(formData, formConfig)
    /\ pc' = IF pc = "blurred" THEN "validated" ELSE "checked"
    /\ UNCHANGED <<form, formConfig, formData, includeBackend>>
    /\ UNCHANGED ruleVars
    /\ UNCHANGED envVars
    /\ UNCHANGED hookVars
    /\ UNCHANGED viewVars

NextBlur ==
    \/ HandleBlur
    \/ ValidateAfterBlur

SpecBlur == InitBlur /\ [][NextBlur]_vars

\* The message of the first failing rule of the blurred field, None when no rule fails
BlurRuleError ==
    IF BlurField.validationRules.has
    THEN validateField(ControlValue(BlurField, formData), BlurField.validationRules)
    ELSE None

\* C21: after the blur of a field one of whose rules fails on the field's value,
\* the field's error is the message of the first failing rule, and onValidate
\* was not called.
C21_BlurStopsAtFailingRule ==
    (form = "blur" /\ pc = "blurred" /\ BlurRuleError # None)
        => (internalError = BlurRuleError /\ onValidateCalls = 0)

C22_JoinBeforeDeciding ==
    /\ [](form \in BuilderForms \cup {"savings"} =>
            ((sheets = "pending" \/ backend = "pending") =>
                (isSubmitting /\ ~submitSuccess /\ submitError = << >>)))
    /\ [][ /\ SinkIssued =>
                /\ sheets' = "pending"
                /\ backend' = "pending" <=> includeBackend
           /\ (\/ ~submitSuccess /\ submitSuccess'
               \/ submitError' # submitError /\ submitError' # << >>
               \/ isSubmitting /\ ~isSubmitting') =>
                (sheets \in {"ok", "fail"} /\ backend \in {"idle", "ok", "fail"}
                 /\ (includeBackend => backend # "idle"))
      ]_vars

\* The primary sink of the savings form has succeeded and the secondary sink has
\* not answered: the submission is still in progress
C22_Witness ==
    /\ form = "savings"
    /\ sheets = "ok"
    /\ backend = "pending"
    /\ isSubmitting /\ ~submitSuccess /\ submitError = << >>

\* C25: submitSuccess and a non-empty submitError never hold together.
C25_SuccessExcludesError ==
    form \in BuilderForms \cup {"savings"} => ~(submitSuccess /\ submitError # << >>)

\* A submission that succeeded although the secondary sink failed: success is
\* set, a warning was logged and no error is shown
C25_Witness ==
    /\ form = "savings"
    /\ submitSuccess
    /\ warned
    /\ submitError = << >>

\* C28: a payload sent after the IP lookup resolved with an address carries that
\* address in ipaddress, in a first submission and in every later one; a payload
\* has an empty ipaddress only when it is sent before the lookup resolved or the
\* lookup failed.
C28_AddressInEveryPayload ==
    [][ SinkIssued =>
            Get(payload', "ipaddress") = IF ipLookup = "done" THEN IpValue ELSE Empty
      ]_vars

(***************************************************************************)
(* SpecSavings: the savings form deployed with a minimum goal below the    *)
(* documented one                                                          *)
(***************************************************************************)
LowMinimumEnvironment ==
    MapOf(<< <<"VITE_GOOGLE_SHEETS_URL", Str(<<"https://example.test/exec">>)>>,
             <<"VITE_API_ENDPOINT", Str(<<"https://example.test/exec">>)>>,
             <<"VITE_MIN_SAVINGS_AMOUNT", Str(<<"2", "0", "0", "0", "0", "0">>)>>,
             <<"VITE_MAX_INSTALLMENTS", Str(<<"1", "2">>)>>,
             <<"VITE_FORM_CLOSED", Str(<<"false">>)>> >>)

InitSavings ==
    /\ form = "savings"
    /\ pc = "idle"
    /\ formConfig = << >>
    /\ formData = initialFormData
    /\ errors = NoErrors
    /\ includeBackend = TRUE
    /\ RuleVarsIdle
    /\ HooksInit
    /\ env = LowMinimumEnvironment
    /\ CONFIG = BuildConfig(env)
    /\ selected = Undefined
    /\ ViewIdle

NextSavings ==
    \/ \E input \in SavingsInputs(formData) : HandleInputChange(input[1], input[2])
    \/ \E frequency \in Frequencies : HandleFrequencyChange(frequency)
    \/ SavingsHandleSubmit
    \/ SavingsJoin
    \/ SavingsResetForm
    \/ \E ok \in BOOLEAN : SheetsResponds(ok)
    \/ \E ok \in BOOLEAN : BackendResponds(ok)
    \/ \E ip \in {IpValue, Empty} : IpResolves(ip)

SpecSavings == InitSavings /\ [][NextSavings]_vars

\* The installment fields of a FormData or payload agree with its goal and frequency
InstallmentsConsistent(data) ==
    LET meta == data["meta_anual_ahorro"].n
        mensual == data["valor_cuota_mensual"]
        semestral == data["valor_cuota_semestral"]
    IN IF data["frecuencia_ahorro"] = Mensual
       THEN /\ mensual = Num(RoundDiv(meta, NumberOf(data["numero_cuotas"])))
            /\ semestral = Num(0)
       ELSE IF data["frecuencia_ahorro"] = Semestral
       THEN /\ semestral = Num(RoundDiv(meta, 2))
            /\ mensual = Num(0)
       ELSE mensual = Num(0) /\ semestral = Num(0)

\* C26: every payload the savings form sends has installment fields that agree
\* with its goal and frequency: the monthly value is round(goal / numero_cuotas)
\* for Mensual, the semester value round(goal / 2) for Semestral, and every
\* other installment value is 0, whatever minimum goal is configured.
C26_PayloadInstallments ==
    (form = "savings" /\ payload # NoPayload) => InstallmentsConsistent(payload)

(***************************************************************************)
(* Claims about the savings form's FormData                                *)
(***************************************************************************)
\* C27: in the savings form, valor_cuota_mensual is non-zero only when the
\* frequency is Mensual, valor_cuota_semestral only when it is Semestral, and
\* numero_cuotas is non-empty only when the frequency is Mensual.
C27_InstallmentFieldsFollowFrequency ==
    form = "savings" =>
        /\ formData["valor_cuota_mensual"] # Num(0) => formData["frecuencia_ahorro"] = Mensual
        /\ formData["valor_cuota_semestral"] # Num(0) =>
              formData["frecuencia_ahorro"] = Semestral
        /\ formData["numero_cuotas"] # Empty => formData["frecuencia_ahorro"] = Mensual

\* The user chose the monthly frequency and three installments, then switched to
\* the semester frequency: the monthly fields are cleared
C27_Witness ==
    /\ form = "savings"
    /\ Get(formData, "frecuencia_ahorro") = Semestral
    /\ Get(formData, "valor_cuota_semestral") = Num(125001)
    /\ Get(formData, "valor_cuota_mensual") = Num(0)
    /\ Get(formData, "numero_cuotas") = Empty
    /\ "numero_cuotas" \in DOMAIN errors

(***************************************************************************)
(* Claims about select and radio fields with number options                *)
(***************************************************************************)
\* The value attributes of options whose value is a number, String(value),
\* with the number each one stands for
OptionNumber ==
    (<<"0">> :> 0) @@ (<<"1">> :> 1) @@ (<<"2">> :> 2) @@ (<<"3">> :> 3)
    @@ (<<"1", "0">> :> 10) @@ (<<"1", "2">> :> 12)
NumberOptions == DOMAIN OptionNumber

\* C23 as claimed: whatever FormData holds for a select or radio field, the
\* missing key and '' included, after the selection of a number-valued option the
\* stored value is a number.
C23_AlwaysNumber ==
    [][ \A raw \in NumberOptions :
            PickOption(raw) => TypeOf(formData'["a"]) = "number"
      ]_vars

\* C23 as amended: the selection of a number-valued option stores the option's
\* number when the stored value is a number, so a field that starts with a number
\* keeps numbers; from any other stored value ('' and the missing key included)
\* it stores the option's string.
C23_NumberStaysNumber ==
    [][ \A raw \in NumberOptions :
            PickOption(raw) =>
                formData'["a"] = IF TypeOf(Get(formData, "a")) = "number"
                                 THEN Num(OptionNumber[raw]) ELSE Str(raw)
      ]_vars

\* The option 12 was picked in a field that held a number
C23_Witness ==
    /\ form = "select"
    /\ selected = Str(<<"1", "2">>)
    /\ formData = Put(EmptyMap, "a", Num(12))

(***************************************************************************)
(* SpecRender: FormBuilder renders a FormConfig, then validateFormConfig   *)
(* is applied to the same FormConfig                                       *)
(***************************************************************************)
\* What a show flag can hold: absent, a boolean, or a value of another type
RenderShowValues == ShowValues \cup {Null, Num(0)}

\* Two sections of one required field each, without rules
RenderConfigs ==
    {<< Section(show1, << Field(kind1, "a", showA, TRUE, NoRules, "") >>),
        Section(show2, << Field(kind2, "b", Undefined, TRUE, NoRules, "") >>) >> :
        show1 \in RenderShowValues, kind1 \in FieldKinds, showA \in RenderShowValues,
        show2 \in {Undefined, Bool(FALSE)}, kind2 \in {"input", "paragraph"}}

InitRender ==
    /\ form = "render"
    /\ pc = "idle"
    /\ formConfig \in RenderConfigs
    /\ formData = EmptyMap
    /\ errors = NoErrors
    /\ includeBackend = FALSE
    /\ RuleVarsIdle
    /\ HooksInit
    /\ EnvIdle
    /\ ViewIdle

\* export const FormBuilder = ({config, formData, errors, onChange, ...}) => <form>...
RenderForm ==
    /\ form = "render"
    /\ pc = "idle"
    /\ controls' = {sf.field.name : sf \in {r \in FieldsOf(formConfig) : Rendered(r)}}
    /\ pc' = "rendered"
    /\ UNCHANGED <<form, formConfig, formData, errors, includeBackend, internalError,
                   onValidateCalls>>
    /\ UNCHANGED ruleVars
    /\ UNCHANGED envVars
    /\ UNCHANGED hookVars

\* validateFormConfig(formData, formConfig) for the rendered form
ValidateRendered ==
    /\ form = "render"
    /\ pc = "rendered"
    /\ errors' = validateFormConfig(formData, formConfig)
    /\ pc' = "done"
    /\ UNCHANGED <<form, formConfig, formData, includeBackend>>
    /\ UNCHANGED ruleVars
    /\ UNCHANGED envVars
    /\ UNCHANGED hookVars
    /\ UNCHANGED viewVars

NextRender ==
    \/ RenderForm
    \/ ValidateRendered

SpecRender == InitRender /\ [][NextRender]_vars

\* Every show flag of the FormConfig is a boolean or absent
BooleanShowFlags ==
    \A sf \in FieldsOf(formConfig) :
        /\ sf.section.show \in ShowValues
        /\ sf.field.show \in ShowValues

\* C29: for a FormConfig whose show flags are booleans or absent, the fields
\* FormBuilder renders a control for are the fields validateFormConfig checks.
\* Every field of the configs is required and FormData is empty, so the fields
\* checked are the names with an entry in the returned map.
C29_RenderedIsValidated ==
    (form = "render" /\ pc = "done" /\ BooleanShowFlags) => controls = DOMAIN errors

\* The field a is hidden by its own flag and the field b is shown: b alone is
\* rendered and checked
C29_Witness ==
    /\ form = "render"
    /\ pc = "done"
    /\ BooleanShowFlags
    /\ formConfig[1].fields[1].show = Bool(FALSE)
    /\ formConfig[1].fields[1].fieldType = "checkbox"
    /\ controls = {"b"}
    /\ DOMAIN errors = {"b"}

(***************************************************************************)
(* FairSpec: the form sessions where every issued sink call resolves and   *)
(* the awaiting submit handler is resumed once Promise.all has resolved    *)
(***************************************************************************)
FairSpec ==
    /\ Spec
    /\ WF_vars(\E ok \in BOOLEAN : SheetsResponds(ok))
    /\ WF_vars(\E ok \in BOOLEAN : BackendResponds(ok))
    /\ WF_vars(SubmitFormJoin)
    /\ WF_vars(SavingsJoin)

\* C24: a submission that passed validation ends: isSubmitting returns to false,
\* and in the step that ends it exactly one of the two outcomes holds, a set
\* submitSuccess or a non-empty submitError.
C24_SubmissionTerminates ==
    /\ isSubmitting ~> ~isSubmitting
    /\ [][ (isSubmitting /\ ~isSubmitting') =>
               (submitSuccess' # (submitError' # << >>)) ]_vars

\* A savings submission that ended in the catch block: an error is shown and
\* isSubmitting is false again
C24_Witness ==
    /\ form = "savings"
    /\ pc = "idle"
    /\ ~isSubmitting
    /\ ~submitSuccess
    /\ Len(submitError) = 2

====
